---------------------------- MODULE Spec2Model ----------------------------
(***************************************************************************)
(* Model of the "select all other occurrences" command of                  *)
(* src/src/extension.ts: findAll, indicesToSelections, getSelection and    *)
(* selectAllOther, together with the part of the host editor's document    *)
(* and selection interface that the command reads and writes.              *)
(*                                                                         *)
(* A document is a sequence of one-character strings; NL is the line       *)
(* break.  Offsets are zero-based, as in the source; TLA+ sequences are    *)
(* one-based, so the character at offset i is text[i + 1].                 *)
(***************************************************************************)
EXTENDS Integers, Sequences, FiniteSets

\* Bounds of the model.
MaxLen == 6
MaxSearch == 2

\* The scan of findAll is followed for at most MaxScan iterations.
MaxScan == MaxLen + 2

NL == "\n"
SP == " "
Chars == {"a", SP, NL}

VARIABLES
  hasEditor,     \* vscode.window.activeTextEditor is defined
  docText,       \* editor.document.getText()
  selections,    \* editor.selections, as last assigned (positions unvalidated)
  pc,            \* where the command is
  selection,     \* selectAllOther: const selection
  wholeWords,    \* selectAllOther: const wholeWords
  selectedText,  \* selectAllOther: const selectedText (findAll: search)
  indices,       \* findAll: const indices; selectAllOther: const indices
  index          \* findAll: let index

vars == <<hasEditor, docText, selections, pc, selection, wholeWords,
          selectedText, indices, index>>

-----------------------------------------------------------------------------
(* Values *)

Texts == UNION {[1..n -> Chars] : n \in 0..MaxLen}

Searches == UNION {[1..n -> Chars] : n \in 1..MaxSearch}

Position(l, c) == [line |-> l, character |-> c]

Range(s, e) == [start |-> s, end |-> e]

\* The value `undefined` of a `vscode.Range | undefined`.
undefined == Range(Position(-1, -1), Position(-1, -1))

Min(a, b) == IF a < b THEN a ELSE b

Max(a, b) == IF a > b THEN a ELSE b

-----------------------------------------------------------------------------
(* The host document: lines, positions, offsets *)

NewlinesBefore(text, off) == Cardinality({k \in 1..off : text[k] = NL})

LineCount(text) == 1 + NewlinesBefore(text, Len(text))

\* Offset of the first character of line l.
LineStart(text, l) ==
  IF l = 0 THEN 0
  ELSE CHOOSE k \in 1..Len(text) : text[k] = NL /\ NewlinesBefore(text, k) = l

\* Length of line l, its line break excluded.
LineLength(text, l) ==
  (IF l + 1 < LineCount(text) THEN LineStart(text, l + 1) - 1 ELSE Len(text))
    - LineStart(text, l)

\* TextDocument.positionAt: the offset is adjusted to the document.
positionAt(text, offset) ==
  LET off == Max(0, Min(offset, Len(text)))
      l == NewlinesBefore(text, off)
  IN  Position(l, off - LineStart(text, l))

\* TextDocument.validatePosition: the position adjusted to the document.
validatePosition(text, pos) ==
  IF pos.line < 0 THEN Position(0, 0)
  ELSE IF pos.line >= LineCount(text)
    THEN Position(LineCount(text) - 1, LineLength(text, LineCount(text) - 1))
  ELSE Position(pos.line, Max(0, Min(pos.character, LineLength(text, pos.line))))

\* TextDocument.offsetAt: the position is adjusted first.
offsetAt(text, pos) ==
  LET p == validatePosition(text, pos)
  IN  LineStart(text, p.line) + p.character

\* TextDocument.getText(range): the range is adjusted first.
getText(text, range) ==
  SubSeq(text, offsetAt(text, range.start) + 1, offsetAt(text, range.end))

\* Position.translate(0, characterDelta).
translate(pos, characterDelta) == Position(pos.line, pos.character + characterDelta)

\* Range.isEmpty.
isEmpty(range) == range.start = range.end

\* Range.isEqual.
isEqual(a, b) == a.start = b.start /\ a.end = b.end

\* The host's default word definition: a word is a maximal run of
\* characters that are neither white space nor separators.
IsWordChar(c) == c \notin {SP, NL}

\* TextDocument.getWordRangeAtPosition: the word whose range encloses the
\* (adjusted) position, its two ends included; undefined when there is none.
getWordRangeAtPosition(text, pos) ==
  LET o == offsetAt(text, pos)
      ws == CHOOSE k \in 0..o :
              /\ \A j \in (k + 1)..o : IsWordChar(text[j])
              /\ (k = 0 \/ ~IsWordChar(text[k]))
      we == CHOOSE k \in o..Len(text) :
              /\ \A j \in (o + 1)..k : IsWordChar(text[j])
              /\ (k = Len(text) \/ ~IsWordChar(text[k + 1]))
  IN  IF ws = we THEN undefined
      ELSE Range(positionAt(text, ws), positionAt(text, we))

-----------------------------------------------------------------------------
(* JavaScript built-ins used by the source *)

\* String.prototype.indexOf(search, from): the first offset >= from at which
\* search occurs in text, -1 when there is none.  from is clamped to the
\* length of text, so the empty search string is found at Min(from, Len(text)).
indexOf(text, search, from) ==
  LET f == Max(0, Min(from, Len(text)))
      hits == {i \in f..(Len(text) - Len(search)) :
                 SubSeq(text, i + 1, i + Len(search)) = search}
  IN  IF hits = {} THEN -1
      ELSE CHOOSE i \in hits : \A j \in hits : i <= j

\* Array.prototype.indexOf(value): the first index holding value, or -1.
arrayIndexOf(arr, value) ==
  LET hits == {k \in 1..Len(arr) : arr[k] = value}
  IN  IF hits = {} THEN -1
      ELSE (CHOOSE k \in hits : \A j \in hits : k <= j) - 1

\* Array.prototype.splice(start, 1): a negative start counts from the end.
splice1(arr, start) ==
  LET s == IF start < 0 THEN Max(Len(arr) + start, 0) ELSE Min(start, Len(arr))
  IN  IF s >= Len(arr) THEN arr
      ELSE SubSeq(arr, 1, s) \o SubSeq(arr, s + 2, Len(arr))

-----------------------------------------------------------------------------
(* src/src/extension.ts *)

\* indicesToSelections: one Selection per index, from the position of the
\* index to that position translated by length characters on the same line.
indicesToSelections(text, idx, length) ==
  [k \in 1..Len(idx) |->
     LET start == positionAt(text, idx[k])
     IN  Range(start, translate(start, length))]

\* getSelection: the selected range, or the word range at the cursor when
\* the selection is empty, and whether the selection was empty.
getSelection(text, sel) ==
  IF isEmpty(sel)
    THEN <<getWordRangeAtPosition(text, sel.start), TRUE>>
    ELSE <<sel, FALSE>>

\* A variant that removes the first entry, whatever it is.
RemoveFirstEntry(idx, offset) == splice1(idx, 0)

\* A variant that removes nothing.
RemoveNothing(idx, offset) == idx

\* selectAllOther, line 65: indices.splice(indices.indexOf(offset), 1).
RemoveOriginal(idx, offset) == splice1(idx, arrayIndexOf(idx, offset))

\* A variant that keeps every selection.
KeepAllSelections(text, sels) == sels

\* selectAllOther, lines 71-72: the selections that are a whole word.
RECURSIVE wholeWordSelections(_, _)
wholeWordSelections(text, sels) ==
  IF sels = <<>> THEN <<>>
  ELSE LET s == Head(sels)
           w == getWordRangeAtPosition(text, s.start)
       IN  (IF w # undefined /\ isEqual(w, s) THEN <<s>> ELSE <<>>)
             \o wholeWordSelections(text, Tail(sels))

\* A variant that filters whatever the flag.
NewSelectionsAlwaysFiltered(text, idx, length, whole) ==
  wholeWordSelections(text, indicesToSelections(text, idx, length))

\* selectAllOther, lines 67-76: the value assigned to editor.selections.
NewSelections(text, idx, length, whole) ==
  LET sels == indicesToSelections(text, idx, length)
  IN  IF whole THEN wholeWordSelections(text, sels) ELSE sels

-----------------------------------------------------------------------------
(* The state machine *)

NoLocals ==
  /\ selection = undefined
  /\ wholeWords = FALSE
  /\ selectedText = <<>>
  /\ indices = <<>>
  /\ index = -1

\* A selection the host holds after a user action: a caret (s = e) or a
\* non-empty range (s < e) between any two offsets of the document.
UserSelections(text) ==
  {<<Range(positionAt(text, se[1]), positionAt(text, se[2]))>> :
     se \in {p \in (0..Len(text)) \X (0..Len(text)) : p[1] <= p[2]}}

Init ==
  /\ pc = "idle"
  /\ hasEditor \in BOOLEAN
  /\ docText \in (IF hasEditor THEN Texts ELSE {<<>>})
  /\ selections \in (IF hasEditor THEN UserSelections(docText) ELSE {<<>>})
  /\ NoLocals

\* No run of the command is in progress: the host may dispatch it.
Idle == pc \in {"idle", "noop", "written", "error"}

\* editor.selection, the primary selection: the first of editor.selections.
\* What it is after the command assigned the empty array is the host's
\* choice: undefined (the array is kept as assigned) or a caret at the
\* start of the document (the host replaces the empty array).
editorSelection(sels) ==
  IF sels # <<>> THEN {sels[1]}
  ELSE {undefined, Range(Position(0, 0), Position(0, 0))}

\* The user places the cursor or selects text in the active editor.
UserSelect ==
  /\ Idle
  /\ hasEditor
  /\ selections' \in UserSelections(docText)
  /\ pc' = "idle"
  /\ selection' = undefined
  /\ wholeWords' = FALSE
  /\ selectedText' = <<>>
  /\ indices' = <<>>
  /\ index' = -1
  /\ UNCHANGED <<hasEditor, docText>>

\* selectAllOther, lines 55-61: the guards and the seed text.  The command
\* may be dispatched whenever none is running.  Reading isEmpty of an
\* undefined editor.selection (line 45) throws a TypeError out of the
\* command: pc = "error".
SelectAllOtherBegin ==
  /\ Idle
  /\ indices' = <<>>
  /\ index' = -1
  /\ UNCHANGED <<hasEditor, docText, selections>>
  /\ IF ~hasEditor
       THEN /\ pc' = "noop"
            /\ selection' = undefined
            /\ wholeWords' = FALSE
            /\ selectedText' = <<>>
       ELSE \E primary \in editorSelection(selections) :
              IF primary = undefined
                THEN /\ pc' = "error"
                     /\ selection' = undefined
                     /\ wholeWords' = FALSE
                     /\ selectedText' = <<>>
                ELSE LET got == getSelection(docText, primary)
                     IN  /\ selection' = got[1]
                         /\ wholeWords' = got[2]
                         /\ IF got[1] = undefined
                              THEN /\ pc' = "noop"
                                   /\ selectedText' = <<>>
                              ELSE /\ pc' = "call"
                                   /\ selectedText' = getText(docText, got[1])

\* findAll, lines 13-14.
FindAllEnter ==
  /\ pc = "call"
  /\ indices' = <<>>
  /\ index' = indexOf(docText, selectedText, 0)
  /\ pc' = "loop"
  /\ UNCHANGED <<hasEditor, docText, selections, selection, wholeWords, selectedText>>

\* A variant that resumes the scan after the end of the match.
FindAllIterPastMatch ==
  /\ pc = "loop"
  /\ index # -1
  /\ Len(indices) < MaxScan
  /\ indices' = Append(indices, index)
  /\ index' = indexOf(docText, selectedText, index + Len(selectedText))
  /\ UNCHANGED <<hasEditor, docText, selections, pc, selection, wholeWords, selectedText>>

\* A variant that resumes the scan at the match itself.
FindAllIterNoAdvance ==
  /\ pc = "loop"
  /\ index # -1
  /\ Len(indices) < MaxScan
  /\ indices' = Append(indices, index)
  /\ index' = indexOf(docText, selectedText, index)
  /\ UNCHANGED <<hasEditor, docText, selections, pc, selection, wholeWords, selectedText>>

\* findAll, lines 15-18: one iteration of the loop.
FindAllIter ==
  /\ pc = "loop"
  /\ index # -1
  /\ Len(indices) < MaxScan
  /\ indices' = Append(indices, index)
  /\ index' = indexOf(docText, selectedText, index + 1)
  /\ UNCHANGED <<hasEditor, docText, selections, pc, selection, wholeWords, selectedText>>

\* findAll, lines 15 and 19: the loop ends and indices is returned.
FindAllReturn ==
  /\ pc = "loop"
  /\ index = -1
  /\ pc' = "ret"
  /\ UNCHANGED <<hasEditor, docText, selections, selection, wholeWords,
                 selectedText, indices, index>>

\* selectAllOther, lines 65-76: splice changes indices in place.
SelectAllOtherFinish ==
  /\ pc = "ret"
  /\ indices' = RemoveOriginal(indices, offsetAt(docText, selection.start))
  /\ selections' = NewSelections(docText, indices', Len(selectedText), wholeWords)
  /\ pc' = "written"
  /\ UNCHANGED <<hasEditor, docText, selection, wholeWords, selectedText, index>>

Next ==
  \/ UserSelect
  \/ SelectAllOtherBegin
  \/ FindAllEnter
  \/ FindAllIter
  \/ FindAllReturn
  \/ SelectAllOtherFinish

Spec == Init /\ [][Next]_vars

\* findAll as a function of its own: any text, any non-empty search string.
FinderInit ==
  /\ pc = "call"
  /\ hasEditor = TRUE
  /\ docText \in Texts
  /\ selectedText \in Searches
  /\ selections = <<>>
  /\ selection = undefined
  /\ wholeWords = FALSE
  /\ indices = <<>>
  /\ index = -1

FinderNext ==
  \/ FindAllEnter
  \/ FindAllIter
  \/ FindAllReturn

FinderSpec == FinderInit /\ [][FinderNext]_vars

-----------------------------------------------------------------------------
(* Properties *)

\* The offsets at which search occurs in text.
Occurrences(text, search) ==
  {i \in 0..(Len(text) - Len(search)) : SubSeq(text, i + 1, i + Len(search)) = search}

\* The members of a set of integers in increasing order.
RECURSIVE Ascending(_)
Ascending(S) ==
  IF S = {} THEN <<>>
  ELSE LET m == CHOOSE x \in S : \A y \in S : x <= y
       IN  <<m>> \o Ascending(S \ {m})

\* The range of the length characters of text that start at offset i.
ExactRange(text, i, length) ==
  Range(positionAt(text, i), positionAt(text, i + length))

\* The ranges of the occurrences at the offsets of a set, in document order.
ExactRanges(text, S, length) ==
  [k \in 1..Cardinality(S) |-> ExactRange(text, Ascending(S)[k], length)]

\* The offset of the start of the seed range.
SeedOffset == offsetAt(docText, selection.start)

\* The occurrence of length characters at offset i is a word of its own.
Standalone(text, i, length) ==
  /\ i = 0 \/ ~IsWordChar(text[i])
  /\ i + length = Len(text) \/ ~IsWordChar(text[i + length + 1])

\* The occurrences of the seed text other than the seed itself.
OtherOccurrences == Occurrences(docText, selectedText) \ {SeedOffset}

\* C1: for every text and every non-empty search string, findAll returns
\* exactly the offsets at which the search string occurs in the text, in
\* increasing order, overlapping occurrences included, and the empty
\* sequence when there is none.
C1_FinderReturnsEveryOccurrence ==
  pc = "ret" => indices = Ascending(Occurrences(docText, selectedText))

C1_Witness ==
  /\ pc = "ret"
  /\ docText = <<"a", "a", "a">>
  /\ selectedText = <<"a", "a">>
  /\ indices = <<0, 1>>

\* C7: the offsets findAll collects are strictly increasing and each lies
\* between 0 and the length of the text minus the length of the search string.
C7_FinderOffsetsIncreasingAndValid ==
  \A k \in 1..Len(indices) :
    /\ 0 <= indices[k]
    /\ indices[k] <= Len(docText) - Len(selectedText)
    /\ k > 1 => indices[k - 1] < indices[k]

C7_Witness ==
  /\ pc = "ret"
  /\ Len(indices) >= 3
  /\ indices[Len(indices)] = Len(docText) - Len(selectedText)

\* C2: when selectAllOther removes the original selection, the offset of the
\* seed range's start is among the offsets findAll returned, exactly that one
\* entry is removed, the others stay in order, and no range assigned to the
\* editor starts at the seed range's start.
C2_OriginalRemovedOnce ==
  [][(pc = "ret" /\ pc' = "written") =>
       /\ \E k \in 1..Len(indices) : indices[k] = SeedOffset
       /\ Len(indices') = Len(indices) - 1
       /\ indices' = SelectSeq(indices, LAMBDA x : x # SeedOffset)
       /\ \A k \in 1..Len(selections') :
            selections'[k].start # positionAt(docText, SeedOffset)]_vars

C2_Witness ==
  /\ pc = "written"
  /\ Len(indices) >= 2
  /\ \E k \in 1..Len(indices) : indices[k] < SeedOffset
  /\ \E k \in 1..Len(indices) : indices[k] > SeedOffset
  /\ Len(selections) = Len(indices)

\* C3: run with a caret inside a word, the command selects exactly the other
\* occurrences of the word's text that are words of their own, each with its
\* exact range, and none that is part of a longer word.
C3_CaretSelectsOtherWholeWords ==
  (pc = "written" /\ wholeWords) =>
    /\ selectedText # <<>>
    /\ \A k \in 1..Len(selectedText) : IsWordChar(selectedText[k])
    /\ Standalone(docText, SeedOffset, Len(selectedText))
    /\ selections =
         ExactRanges(docText,
                     {i \in OtherOccurrences : Standalone(docText, i, Len(selectedText))},
                     Len(selectedText))

C3_Witness ==
  /\ pc = "written"
  /\ wholeWords
  /\ Len(selections) >= 1
  /\ Cardinality(OtherOccurrences) > Len(selections)

\* The text has no line break.
OneLine(text) == \A k \in 1..Len(text) : text[k] # NL

\* C4: run with a non-empty selection, the command takes the selection as
\* the seed with the whole-word flag false, applies no filter, and assigns
\* one range for every occurrence of the selected text other than the seed,
\* in document order, each starting at its occurrence (and, the selected
\* text being on one line, spanning exactly that occurrence), whether or
\* not the occurrence lies inside a longer word.
C4_SelectionSelectsEveryOtherOccurrence ==
  /\ [][(Idle /\ pc' = "call" /\ selections # <<>> /\ ~isEmpty(selections[1])) =>
          (~wholeWords' /\ selection' = selections[1])]_vars
  /\ []((pc = "written" /\ ~wholeWords) =>
          /\ Len(selections) = Cardinality(OtherOccurrences)
          /\ \A k \in 1..Len(selections) :
               selections[k].start = positionAt(docText, Ascending(OtherOccurrences)[k])
          /\ OneLine(selectedText) =>
               selections = ExactRanges(docText, OtherOccurrences, Len(selectedText)))

C4_Witness ==
  /\ pc = "written"
  /\ ~wholeWords
  /\ Len(selections) >= 2
  /\ \E i \in OtherOccurrences : ~Standalone(docText, i, Len(selectedText))
  /\ \E i \in OtherOccurrences : Standalone(docText, i, Len(selectedText))

\* After the first step of a run: a precondition of the command has
\* failed (no active editor, no word at the caret, or an empty seed text).
PreconditionFailed ==
  \/ ~hasEditor
  \/ selection = undefined
  \/ selectedText = <<>>

\* C5: a run of the command whose precondition fails returns at once,
\* raising no error, and leaves the document text and the selection set as
\* they were.
C5_PreconditionFailureIsNoOp ==
  [][(Idle /\ pc' \in {"noop", "call"} /\ PreconditionFailed') =>
       (pc' = "noop" /\ selections' = selections /\ docText' = docText)]_vars

\* C6: indicesToSelections returns one range per offset, in the order of the
\* offsets, and the range for offset i runs from the position of i to the
\* position of i + length, also across a line break.
C6_BuilderRangesAreExact ==
  (pc = "written" /\ ~wholeWords) =>
    /\ Len(selections) = Len(indices)
    /\ \A k \in 1..Len(selections) :
         selections[k] = ExactRange(docText, indices[k], Len(selectedText))

\* C8: when the seed text occurs once in the document, the command finds
\* the seed alone, removes it and assigns the empty selection set; a run
\* ends in an error only when it had no primary selection, hence no seed.
C8_UniqueSeedGivesEmptySet ==
  /\ pc = "error" => selections = <<>>
  /\ Cardinality(Occurrences(docText, selectedText)) = 1 =>
       /\ pc = "ret" => indices = <<SeedOffset>>
       /\ pc = "written" => (indices = <<>> /\ selections = <<>>)

C8_Witness ==
  /\ pc = "written"
  /\ wholeWords
  /\ Len(docText) >= 3
  /\ Cardinality(Occurrences(docText, selectedText)) = 1
  /\ selections = <<>>

\* C9: no range assigned to the editor ends beyond the document or beyond
\* the end of its line.
C9_WrittenRangesInsideDocument ==
  pc = "written" =>
    \A k \in 1..Len(selections) :
      /\ validatePosition(docText, selections[k].start) = selections[k].start
      /\ validatePosition(docText, selections[k].end) = selections[k].end

\* C10: the scan of findAll ends after at most as many iterations as the
\* text has characters, whatever search string selectAllOther passes.
C10_ScanEndsWithinTextLength ==
  pc = "loop" => Len(indices) <= Len(docText)

=============================================================================
